---- MODULE Spec2Model ----
(***************************************************************************)
(* Model of the data layer of Gestor-de-Turnos:                            *)
(*   src/contexts/DataContext.tsx  (DataProvider: load protocol, sync      *)
(*                                  helpers, tenant filter, actions)       *)
(*   src/unnamed/part_000          (Netlify function over the blob store)  *)
(***************************************************************************)
EXTENDS Integers, Sequences, FiniteSets, TLC

(***************************************************************************)
(* Bounds                                                                  *)
(***************************************************************************)
\* number of loadData calls (the mount effect plus refreshData calls)
MaxLoads == 2
\* number of action calls made by the consumer of the context
MaxMutations == 2
\* the clock values Date.now() can return
MaxTime == 2
\* the calendar days a date range can name
MaxDay == 2
\* largest task collection on which the id assignment is exercised
MaxItems == 2
\* number of runBackendTest calls
MaxTests == 1

(***************************************************************************)
(* Types of ../types and the constants of ../constants                     *)
(***************************************************************************)
SUPER_ADMIN == "SUPER_ADMIN"
ADMIN == "ADMIN"
ANALYST == "ANALYST"
PENDING == "PENDING"
COMPLETED == "COMPLETED"

Types == {"users", "tasks", "templates", "orgs"}

CACHE_KEYS == [users |-> "cache_users", tasks |-> "cache_tasks",
               templates |-> "cache_templates", orgs |-> "cache_orgs"]

CacheKeyNames == {CACHE_KEYS[c] : c \in Types}

User(id, org, role, pass) ==
    [id |-> id, organizationId |-> org, role |-> role, password |-> pass]

Task(id, org, title, who, day, status, completedAt, notes) ==
    [id |-> id, organizationId |-> org, title |-> title, assignedTo |-> who,
     deadline |-> day, status |-> status, completedAt |-> completedAt,
     notes |-> notes]

Template(id, org, items) == [id |-> id, organizationId |-> org, items |-> items]

Organization(id) == [id |-> id, isActive |-> TRUE]

MOCK_ORGS == << Organization("o1") >>

MOCK_USERS == << User("u0", "global", SUPER_ADMIN, "p"),
                 User("u1", "o1", ADMIN, "p") >>

MOCK_TASKS == << Task(<<"0","0","0","1">>, "o1", "a", "u1", 1, PENDING, "absent", "absent") >>

NoUser == [id |-> "null"]


(***************************************************************************)
(* Sequence helpers (Array.prototype.map / filter / find)                  *)
(***************************************************************************)
Map(f(_), s) == [i \in DOMAIN s |-> f(s[i])]

Filter(p(_), s) == SelectSeq(s, p)

Range(s) == {s[i] : i \in DOMAIN s}

Remove(s, k) == [i \in 1..(Len(s) - 1) |-> IF i < k THEN s[i] ELSE s[i + 1]]

Max(S) == CHOOSE m \in S : \A n \in S : n <= m

(***************************************************************************)
(* JSON.stringify / JSON.parse of a collection: a field whose value is     *)
(* undefined is dropped by stringify and is absent after parse.            *)
(***************************************************************************)
JsonRecord(r) ==
    IF "completedAt" \in DOMAIN r /\ r.completedAt = "undefined"
    THEN [r EXCEPT !.completedAt = "absent"]
    ELSE r

ToJSON(data) == Map(JsonRecord, data)

(***************************************************************************)
(* Documents of the blob store and entries of localStorage                 *)
(***************************************************************************)
Absent == [kind |-> "absent"]
Malformed == [kind |-> "malformed"]
Json(v) == [kind |-> "json", val |-> v]
Null == [kind |-> "null"]

(***************************************************************************)
(* saveCache / loadCache                                                   *)
(* localStorage is taken to accept every write: the quota failure that the *)
(* catch of saveCache swallows is not modelled.                            *)
(***************************************************************************)
saveCache(ls, key, data) == [ls EXCEPT ![key] = Json(ToJSON(data))]

loadCache(ls, key) == IF ls[key].kind = "json" THEN ls[key] ELSE Null

\* the JavaScript expression (v || d) for v an array or null
OrElse(v, d) == IF v.kind = "json" THEN v.val ELSE d

(***************************************************************************)
(* State                                                                   *)
(***************************************************************************)
VARIABLES
    rawUsers, rawTasks, rawTemplates, rawOrgs,  \* useState: the global store
    isLoading, connectionError,                 \* useState
    currentUser,                                \* useState
    closure,        \* the values the last render captured for the actions
    localStorage,   \* the four snapshot-cache entries
    store,          \* the documents of the remote blob store
    saves,          \* apiService.save calls in flight, in order of issue
    loads,          \* the loadData calls: position, timer, fetched values
    nLoads,         \* number of loadData calls so far
    nMutations,     \* number of action calls so far
    backendTests    \* the runBackendTest calls: position, results, locals

vars == << rawUsers, rawTasks, rawTemplates, rawOrgs, isLoading,
           connectionError, currentUser, closure, localStorage, store,
           saves, loads, nLoads, nMutations, backendTests >>

rawVars == << rawUsers, rawTasks, rawTemplates, rawOrgs >>

TIMEOUT_ERROR == "Tiempo de espera agotado. El backend puede estar inactivo."
OFFLINE_ERROR == "No se pudo conectar con el backend (Modo Offline)."

RawOf(t) ==
    CASE t = "users" -> rawUsers
      [] t = "tasks" -> rawTasks
      [] t = "templates" -> rawTemplates
      [] t = "orgs" -> rawOrgs

\* a runBackendTest call not made yet: results and the list in hand
\* (newUsersList, then cleanupList)
IdleTest ==
    [pc |-> "idle", results |-> << >>, testId |-> "none", list |-> << >>]

IdleLoad ==
    [pc |-> "idle", timer |-> "none", probe |-> "none",
     fetched |-> [t \in Types |-> Absent],
     fetchIssued |-> FALSE, seedIssued |-> FALSE,
     seedAcks |-> 0, seedRejected |-> FALSE, path |-> "none"]


(***************************************************************************)
(* Initial contents of the remote store and of localStorage (left by       *)
(* earlier sessions)                                                       *)
(***************************************************************************)
StoredOrgs == << Organization("o1"), Organization("o2") >>

StoredUsers == << User("u1", "o1", ADMIN, "p"), User("u2", "o2", ANALYST, "p") >>

StoredTasks ==
    << Task(<<"0","0","0","2">>, "o2", "b", "u2", 1, COMPLETED, "ts", "absent"),
       Task(<<"0","0","0","1">>, "o1", "a", "u1", 1, PENDING, "absent", "absent") >>

StoredTemplates == << Template("t1", "o1", << "a", "b" >>) >>

CachedUsers == << User("u1", "o1", ADMIN, "old") >>

CachedTasks == << Task(<<"7">>, "o1", "a", "u1", 2, PENDING, "absent", "absent") >>

CachedTemplates == << Template("t2", "o2", << "b" >>) >>

EmptyStore == [t \in Types |-> Absent]

FullStore ==
    [users |-> Json(StoredUsers), tasks |-> Json(StoredTasks),
     templates |-> Json(StoredTemplates), orgs |-> Json(StoredOrgs)]

\* no users and no organizations, but tasks and templates
HalfStore ==
    [users |-> Json(<< >>), tasks |-> Json(StoredTasks),
     templates |-> Json(StoredTemplates), orgs |-> Absent]

\* organizations only
OrgsStore ==
    [users |-> Absent, tasks |-> Json(<< >>),
     templates |-> Absent, orgs |-> Json(StoredOrgs)]

EmptyCache == [k \in CacheKeyNames |-> Absent]

UsersCache ==
    [cache_users |-> Json(CachedUsers), cache_tasks |-> Malformed,
     cache_templates |-> Absent, cache_orgs |-> Json(<< >>)]

TasksCache ==
    [cache_users |-> Malformed, cache_tasks |-> Json(CachedTasks),
     cache_templates |-> Json(CachedTemplates), cache_orgs |-> Absent]

\* the store and the cache the provider finds when it is constructed
Environments ==
    { << EmptyStore, EmptyCache >>,
      << FullStore, UsersCache >>, << FullStore, TasksCache >>,
      << HalfStore, EmptyCache >>, << OrgsStore, TasksCache >> }

\* the state of the hooks after construction (lines 59-105)
Constructed ==
    /\ rawUsers = << >>
    /\ rawTasks = << >>
    /\ rawTemplates = << >>
    /\ rawOrgs = << >>
    /\ isLoading = TRUE
    /\ connectionError = "null"
    /\ currentUser = NoUser
    /\ closure = [users |-> << >>, tasks |-> << >>, templates |-> << >>,
                  orgs |-> << >>, currentUser |-> NoUser]
    /\ saves = << >>
    /\ loads = [i \in 1..MaxLoads |-> IdleLoad]
    /\ nLoads = 0
    /\ nMutations = 0
    /\ backendTests = [i \in 1..MaxTests |-> IdleTest]

Init ==
    /\ Constructed
    /\ \E env \in Environments : store = env[1] /\ localStorage = env[2]

(***************************************************************************)
(* apiService (../services/api) and the remote handler                     *)
(***************************************************************************)
\* GET ?type=t of the handler: the stored document, [] when there is none
HandlerGet(st, t) == IF st[t].kind = "json" THEN st[t].val ELSE << >>

\* POST ?type=t of the handler with a non-null body: setJSON(type, body)
HandlerPost(st, t, body) == [st EXCEPT ![t] = Json(body)]

(***************************************************************************)
(* The handler as a whole (part_000, lines 5-69). A JSON value that is not *)
(* an array is a scalar, named by its text.                                *)
(***************************************************************************)
Scalar(text) == [kind |-> "scalar", val |-> text]

\* the JSON values JavaScript takes for false in (rawData || [])
Falsy(v) ==
    \/ v.kind \in {"null", "absent"}
    \/ v.kind = "scalar" /\ v.val \in {"false", "0", "\"\""}

\* event.body ? JSON.parse(event.body) : null; a text that does not parse
\* throws
ParseBody(body) == IF body = Absent THEN Null ELSE body

Response(statusCode, body, st) == [statusCode |-> statusCode, body |-> body, store |-> st]

ErrorBody(message) == [kind |-> "error", val |-> message]

\* event is the method, the type parameter and the body; storeThrows says
\* whether the blob store fails on the request
handler(st, event, storeThrows) ==
    IF event.httpMethod = "OPTIONS"
    THEN Response(204, [kind |-> "empty"], st)
    ELSE IF event.type = "health"
    THEN Response(200, [kind |-> "status", val |-> "ok"], st)
    ELSE IF event.type \notin Types
    THEN Response(400, ErrorBody("Invalid or missing type parameter"), st)
    ELSE IF event.httpMethod = "GET"
    THEN IF storeThrows
         THEN Response(500, ErrorBody("store"), st)
         ELSE Response(200, IF Falsy(st[event.type]) THEN Json(<< >>)
                            ELSE st[event.type], st)
    ELSE IF event.httpMethod = "POST"
    THEN IF event.body = Malformed
         THEN Response(500, ErrorBody("parse"), st)
         ELSE IF ParseBody(event.body) = Null
         THEN Response(400, ErrorBody("Missing body"), st)
         ELSE IF storeThrows
         THEN Response(500, ErrorBody("store"), st)
         ELSE Response(200,
                       [kind |-> "ack", success |-> TRUE,
                        count |-> IF event.body.kind = "json"
                                  THEN Len(event.body.val) ELSE 1],
                       [st EXCEPT ![event.type] = event.body])
    ELSE Response(405, ErrorBody("Method not allowed"), st)

\* apiService.save(type, data): the request put in flight
SaveRequest(t, data, owner) ==
    [type |-> t, body |-> ToJSON(data), owner |-> owner]

(***************************************************************************)
(* Rendering. A state change schedules a render; the render runs before    *)
(* the next timer or network callback, but the consumer may call actions   *)
(* of the previous render before it (calls made in one event handler).     *)
(***************************************************************************)
Snapshot ==
    [users |-> rawUsers, tasks |-> rawTasks, templates |-> rawTemplates,
     orgs |-> rawOrgs, currentUser |-> currentUser]

Rendered == closure = Snapshot

(***************************************************************************)
(* loadData                                                                *)
(***************************************************************************)
\* lines 110-127: flags, safety valve armed, health check issued
loadData(i) ==
    /\ nLoads < MaxLoads
    /\ i = nLoads + 1
    /\ nLoads' = nLoads + 1
    /\ isLoading' = TRUE
    /\ connectionError' = "null"
    /\ loads' = [loads EXCEPT ![i].pc = "health", ![i].timer = "armed"]
    /\ UNCHANGED << rawVars, currentUser, backendTests, closure, localStorage, store,
                    saves, nMutations >>

\* fault injection: the callback records the error but keeps the flag
SafetyValveKeepsFlag(i) ==
    /\ Rendered
    /\ loads[i].timer = "armed"
    /\ loads' = [loads EXCEPT ![i].timer = "fired"]
    /\ IF isLoading
       THEN /\ connectionError' = TIMEOUT_ERROR
            /\ UNCHANGED isLoading
       ELSE UNCHANGED << isLoading, connectionError >>
    /\ UNCHANGED << rawVars, currentUser, backendTests, closure, localStorage, store,
                    saves, nLoads, nMutations >>

\* lines 114-123: the safety valve's callback
SafetyValve(i) ==
    /\ Rendered
    /\ loads[i].timer = "armed"
    /\ loads' = [loads EXCEPT ![i].timer = "fired"]
    /\ IF isLoading
       THEN /\ connectionError' = TIMEOUT_ERROR
            /\ isLoading' = FALSE
       ELSE UNCHANGED << isLoading, connectionError >>
    /\ UNCHANGED << rawVars, currentUser, backendTests, closure, localStorage, store,
                    saves, nLoads, nMutations >>

\* lines 195-198: finally
Finally(ld, path) ==
    [ld EXCEPT !.pc = "done", !.path = path,
               !.timer = IF @ = "armed" THEN "cleared" ELSE @]

\* (cached || fallback) of lines 190-193
OfflineValue(cached, fallback) == OrElse(cached, fallback)

\* fault injection: the cache is used only when all four entries are there
CatchBranchAllOrNothing(i, ld) ==
    LET all == \A k \in CacheKeyNames : loadCache(localStorage, k) # Null
        Pick(k, fallback) == IF all THEN loadCache(localStorage, k).val ELSE fallback
    IN
    /\ connectionError' = OFFLINE_ERROR
    /\ rawUsers' = Pick(CACHE_KEYS.users, MOCK_USERS)
    /\ rawTasks' = Pick(CACHE_KEYS.tasks, MOCK_TASKS)
    /\ rawOrgs' = Pick(CACHE_KEYS.orgs, MOCK_ORGS)
    /\ rawTemplates' = Pick(CACHE_KEYS.templates, << >>)
    /\ isLoading' = FALSE
    /\ loads' = [loads EXCEPT ![i] = Finally(ld, "offline")]
    /\ UNCHANGED << currentUser, backendTests, closure, localStorage, store, saves,
                    nLoads, nMutations >>

\* lines 180-198: catch and finally
CatchBranch(i, ld) ==
    /\ connectionError' = OFFLINE_ERROR
    /\ rawUsers' = OfflineValue(loadCache(localStorage, CACHE_KEYS.users), MOCK_USERS)
    /\ rawTasks' = OfflineValue(loadCache(localStorage, CACHE_KEYS.tasks), MOCK_TASKS)
    /\ rawOrgs' = OfflineValue(loadCache(localStorage, CACHE_KEYS.orgs), MOCK_ORGS)
    /\ rawTemplates' = OfflineValue(loadCache(localStorage, CACHE_KEYS.templates), << >>)
    /\ isLoading' = FALSE
    /\ loads' = [loads EXCEPT ![i] = Finally(ld, "offline")]
    /\ UNCHANGED << currentUser, backendTests, closure, localStorage, store, saves,
                    nLoads, nMutations >>

\* fault injection: the result of the health check is not tested
HealthNeverFailed(isOnline) == FALSE

\* line 129: if (!isOnline) throw
HealthFailed(isOnline) == ~isOnline

\* lines 127-141: the health check resolves; on success the four fetches
\* are issued
HealthCheck(i, isOnline) ==
    /\ Rendered
    /\ loads[i].pc = "health"
    /\ IF HealthFailed(isOnline)
       THEN CatchBranch(i, [loads[i] EXCEPT !.probe = "down"])
       ELSE /\ loads' = [loads EXCEPT ![i].pc = "fetch",
                                      ![i].probe = IF isOnline THEN "up" ELSE "down",
                                      ![i].fetchIssued = TRUE]
            /\ UNCHANGED << rawVars, isLoading, connectionError, currentUser, backendTests,
                            closure, localStorage, store, saves, nLoads,
                            nMutations >>

\* one of the four apiService.fetch calls is answered by the handler
Fetch(i, t) ==
    /\ Rendered
    /\ loads[i].pc = "fetch"
    /\ loads[i].fetched[t] = Absent
    /\ loads' = [loads EXCEPT ![i].fetched[t] = Json(HandlerGet(store, t))]
    /\ UNCHANGED << rawVars, isLoading, connectionError, currentUser, backendTests, closure,
                    localStorage, store, saves, nLoads, nMutations >>

\* one of the fetches rejects: Promise.all rejects, lines 180-198 run
FetchRejected(i) ==
    /\ Rendered
    /\ loads[i].pc = "fetch"
    /\ \E t \in Types : loads[i].fetched[t] = Absent
    /\ CatchBranch(i, loads[i])

\* fault injection: seeding when either collection is empty
ShouldSeedEither(users, orgs) == Len(users) = 0 \/ Len(orgs) = 0

\* line 150: the seeding condition
ShouldSeed(users, orgs) == Len(users) = 0 /\ Len(orgs) = 0

\* fault injection: the snapshot of the templates is not written
StoreLoadedNoTemplateSnapshot(i, path, finalUsers, finalTasks, templates, finalOrgs) ==
    /\ rawUsers' = finalUsers
    /\ rawTasks' = finalTasks
    /\ rawTemplates' = templates
    /\ rawOrgs' = finalOrgs
    /\ localStorage' =
         saveCache(saveCache(saveCache(localStorage,
             CACHE_KEYS.users, finalUsers),
             CACHE_KEYS.tasks, finalTasks),
             CACHE_KEYS.orgs, finalOrgs)
    /\ isLoading' = FALSE
    /\ loads' = [loads EXCEPT ![i] = Finally(loads[i], path)]

\* lines 170-178 and 195-198: store, snapshot, finally
StoreLoaded(i, path, finalUsers, finalTasks, templates, finalOrgs) ==
    /\ rawUsers' = finalUsers
    /\ rawTasks' = finalTasks
    /\ rawTemplates' = templates
    /\ rawOrgs' = finalOrgs
    /\ localStorage' =
         saveCache(saveCache(saveCache(saveCache(localStorage,
             CACHE_KEYS.users, finalUsers),
             CACHE_KEYS.tasks, finalTasks),
             CACHE_KEYS.templates, templates),
             CACHE_KEYS.orgs, finalOrgs)
    /\ isLoading' = FALSE
    /\ loads' = [loads EXCEPT ![i] = Finally(loads[i], path)]

\* lines 136-178: Promise.all of the fetches resolves
AfterFetch(i) ==
    /\ Rendered
    /\ loads[i].pc = "fetch"
    /\ \A t \in Types : loads[i].fetched[t] # Absent
    /\ LET users == loads[i].fetched["users"].val
           tasks == loads[i].fetched["tasks"].val
           templates == loads[i].fetched["templates"].val
           orgs == loads[i].fetched["orgs"].val
       IN IF ShouldSeed(users, orgs)
          THEN /\ saves' = saves \o << SaveRequest("users", MOCK_USERS, i),
                                       SaveRequest("tasks", MOCK_TASKS, i),
                                       SaveRequest("orgs", MOCK_ORGS, i) >>
               /\ loads' = [loads EXCEPT ![i].pc = "seed",
                                         ![i].seedIssued = TRUE]
               /\ UNCHANGED << rawVars, isLoading, localStorage >>
          ELSE /\ StoreLoaded(i, "remote", users, tasks, templates, orgs)
               /\ UNCHANGED saves
    /\ UNCHANGED << connectionError, currentUser, backendTests, closure, store, nLoads,
                    nMutations >>

\* lines 158-178: Promise.all of the seed saves resolves or rejects
AfterSeed(i) ==
    /\ Rendered
    /\ loads[i].pc = "seed"
    /\ loads[i].seedRejected \/ loads[i].seedAcks = 3
    /\ StoreLoaded(i, "seeded", MOCK_USERS, MOCK_TASKS,
                   loads[i].fetched["templates"].val, MOCK_ORGS)
    /\ UNCHANGED << connectionError, currentUser, backendTests, closure, store, saves,
                    nLoads, nMutations >>

(***************************************************************************)
(* Saves in flight                                                         *)
(***************************************************************************)
\* fault injection: a rejected save of a sync call puts the stored document
\* back in memory
SettledRollsBack(k, ok) ==
    LET s == saves[k]
        Back(t, old) == IF ~ok /\ s.owner = 0 /\ s.type = t
                        THEN HandlerGet(store, t) ELSE old
    IN
    /\ Rendered
    /\ saves' = Remove(saves, k)
    /\ rawUsers' = Back("users", rawUsers)
    /\ rawTasks' = Back("tasks", rawTasks)
    /\ rawTemplates' = Back("templates", rawTemplates)
    /\ rawOrgs' = Back("orgs", rawOrgs)
    /\ IF s.owner = 0
       THEN /\ localStorage' = saveCache(localStorage, CACHE_KEYS[s.type], s.body)
            /\ UNCHANGED loads
       ELSE /\ loads' = IF ok
                        THEN [loads EXCEPT ![s.owner].seedAcks = @ + 1]
                        ELSE [loads EXCEPT ![s.owner].seedRejected = TRUE]
            /\ UNCHANGED localStorage
    /\ UNCHANGED << isLoading, connectionError, currentUser, backendTests, closure,
                    nLoads, nMutations >>

\* what the caller of save k does when the promise settles: the then / catch
\* callbacks of lines 206-242 (owner = 0), or the Promise.all of lines 159-163
Settled(k, ok) ==
    LET s == saves[k] IN
    /\ Rendered
    /\ saves' = Remove(saves, k)
    /\ IF s.owner = 0
       THEN /\ localStorage' = saveCache(localStorage, CACHE_KEYS[s.type], s.body)
            /\ UNCHANGED loads
       ELSE /\ loads' = IF ok
                        THEN [loads EXCEPT ![s.owner].seedAcks = @ + 1]
                        ELSE [loads EXCEPT ![s.owner].seedRejected = TRUE]
            /\ UNCHANGED localStorage
    /\ UNCHANGED << rawVars, isLoading, connectionError, currentUser, backendTests, closure,
                    nLoads, nMutations >>

\* the saves answered in the order of their issue
SaveResolvedInOrder(k) ==
    /\ k = 1
    /\ k \in DOMAIN saves
    /\ store' = HandlerPost(store, saves[k].type, saves[k].body)
    /\ Settled(k, TRUE)

\* save k succeeds: the handler runs the POST and the promise resolves
SaveResolved(k) ==
    /\ k \in DOMAIN saves
    /\ store' = HandlerPost(store, saves[k].type, saves[k].body)
    /\ Settled(k, TRUE)

\* save k fails: the request is lost (applied = FALSE) or the handler runs
\* the POST and its response is lost (applied = TRUE); the promise rejects
SaveRejected(k, applied) ==
    /\ k \in DOMAIN saves
    /\ store' = IF applied
                THEN HandlerPost(store, saves[k].type, saves[k].body)
                ELSE store
    /\ Settled(k, FALSE)

\* a render: the actions and the filtered views are rebuilt from the state
Render ==
    /\ ~Rendered
    /\ closure' = Snapshot
    /\ UNCHANGED << rawVars, isLoading, connectionError, currentUser, backendTests,
                    localStorage, store, saves, loads, nLoads, nMutations >>

(***************************************************************************)
(* runBackendTest (lines 517-586): one action for each stretch of the code *)
(* between two awaits. Like the other network callbacks, its continuations *)
(* run once the pending render has run.                                    *)
(***************************************************************************)
log(results, step, status) == Append(results, [step |-> step, status |-> status])

\* the catch of line 581
Fatal(results) == log(results, "FATAL", "error")

testUser(testId) == User(testId, "test_org", ANALYST, "test")

TestFrame ==
    UNCHANGED << rawTasks, rawTemplates, rawOrgs, isLoading, connectionError,
                 currentUser, closure, localStorage, saves, loads, nLoads,
                 nMutations >>

\* the call up to the first await
runBackendTest(i, now) ==
    /\ nLoads >= 1
    /\ backendTests[i].pc = "idle"
    /\ \A j \in 1..(i - 1) : backendTests[j].pc # "idle"
    /\ backendTests' = [backendTests EXCEPT ![i] =
          [pc |-> "fetching",
           results |-> log(<< >>, "1. PRE-CHECK", "pending"),
           testId |-> "test_user_" \o ToString(now),
           list |-> << >>]]
    /\ UNCHANGED << rawUsers, store >>
    /\ TestFrame

\* fetch('users') has resolved: the test user is appended and posted
PreCheck(i) ==
    LET t == backendTests[i]
        initialUsers == HandlerGet(store, "users")
    IN /\ Rendered
       /\ t.pc = "fetching"
       /\ backendTests' = [backendTests EXCEPT ![i] =
             [t EXCEPT !.pc = "writing",
                       !.results = log(log(t.results, "1. PRE-CHECK", "success"),
                                       "2. WRITE", "pending"),
                       !.list = initialUsers \o << testUser(t.testId) >>]]
       /\ UNCHANGED << rawUsers, store >>
       /\ TestFrame

\* fetch('users') has rejected: the inner catch logs and throws
PreCheckRejected(i) ==
    LET t == backendTests[i]
    IN /\ Rendered
       /\ t.pc = "fetching"
       /\ backendTests' = [backendTests EXCEPT ![i] =
             [t EXCEPT !.pc = "done",
                       !.results = Fatal(log(t.results, "1. PRE-CHECK", "error"))]]
       /\ UNCHANGED << rawUsers, store >>
       /\ TestFrame

\* save('users', newUsersList) has resolved; acknowledged is
\* (saveRes.success || saveRes.count)
Write(i, acknowledged, applied) ==
    LET t == backendTests[i]
    IN /\ Rendered
       /\ t.pc = "writing"
       /\ acknowledged => applied
       /\ store' = IF applied THEN HandlerPost(store, "users", ToJSON(t.list))
                   ELSE store
       /\ backendTests' = [backendTests EXCEPT ![i] =
             IF acknowledged
             THEN [t EXCEPT !.pc = "verifying",
                            !.results = log(log(t.results, "2. WRITE", "success"),
                                            "3. VERIFY", "pending")]
             ELSE [t EXCEPT !.pc = "done", !.results = Fatal(t.results)]]
       /\ UNCHANGED rawUsers
       /\ TestFrame

\* save('users', newUsersList) has rejected
WriteRejected(i, applied) ==
    LET t == backendTests[i]
    IN /\ Rendered
       /\ t.pc = "writing"
       /\ store' = IF applied THEN HandlerPost(store, "users", ToJSON(t.list))
                   ELSE store
       /\ backendTests' = [backendTests EXCEPT ![i] =
             [t EXCEPT !.pc = "done", !.results = Fatal(t.results)]]
       /\ UNCHANGED rawUsers
       /\ TestFrame

\* the verification going on to the cleanup without the test user found
VerifyNoAbort(i) ==
    LET t == backendTests[i]
        verifiedUsers == HandlerGet(store, "users")
        found == \E k \in DOMAIN verifiedUsers : verifiedUsers[k].id = t.testId
        cleanupList == Filter(LAMBDA u : u.id # t.testId, verifiedUsers)
    IN /\ Rendered
       /\ t.pc = "verifying"
       /\ backendTests' = [backendTests EXCEPT ![i] =
             [t EXCEPT !.pc = "cleaning",
                       !.results = log(log(t.results, "3. VERIFY",
                                           IF found THEN "success" ELSE "error"),
                                       "4. CLEANUP", "pending"),
                       !.list = cleanupList]]
       /\ UNCHANGED << rawUsers, store >>
       /\ TestFrame

\* the second fetch('users') has resolved: the test user is looked for, and
\* when found the list without it is posted
Verify(i) ==
    LET t == backendTests[i]
        verifiedUsers == HandlerGet(store, "users")
        found == \E k \in DOMAIN verifiedUsers : verifiedUsers[k].id = t.testId
        cleanupList == Filter(LAMBDA u : u.id # t.testId, verifiedUsers)
    IN /\ Rendered
       /\ t.pc = "verifying"
       /\ backendTests' = [backendTests EXCEPT ![i] =
             IF found
             THEN [t EXCEPT !.pc = "cleaning",
                            !.results = log(log(t.results, "3. VERIFY", "success"),
                                            "4. CLEANUP", "pending"),
                            !.list = cleanupList]
             ELSE [t EXCEPT !.pc = "done",
                            !.results = Fatal(log(t.results, "3. VERIFY", "error"))]]
       /\ UNCHANGED << rawUsers, store >>
       /\ TestFrame

\* the second fetch('users') has rejected
VerifyRejected(i) ==
    LET t == backendTests[i]
    IN /\ Rendered
       /\ t.pc = "verifying"
       /\ backendTests' = [backendTests EXCEPT ![i] =
             [t EXCEPT !.pc = "done", !.results = Fatal(t.results)]]
       /\ UNCHANGED << rawUsers, store >>
       /\ TestFrame

\* mirror without the write to memory
CleanupNoMirror(i) ==
    LET t == backendTests[i]
    IN /\ Rendered
       /\ t.pc = "cleaning"
       /\ store' = HandlerPost(store, "users", ToJSON(t.list))
       /\ backendTests' = [backendTests EXCEPT ![i] =
             [t EXCEPT !.pc = "done",
                       !.results = log(t.results, "4. CLEANUP", "success")]]
       /\ UNCHANGED rawUsers
       /\ TestFrame

\* save('users', cleanupList) has resolved (its result is not looked at):
\* setRawUsers(cleanupList)
Cleanup(i) ==
    LET t == backendTests[i]
    IN /\ Rendered
       /\ t.pc = "cleaning"
       /\ store' = HandlerPost(store, "users", ToJSON(t.list))
       /\ backendTests' = [backendTests EXCEPT ![i] =
             [t EXCEPT !.pc = "done",
                       !.results = log(t.results, "4. CLEANUP", "success")]]
       /\ rawUsers' = t.list
       /\ TestFrame

\* save('users', cleanupList) has rejected
CleanupRejected(i, applied) ==
    LET t == backendTests[i]
    IN /\ Rendered
       /\ t.pc = "cleaning"
       /\ store' = IF applied THEN HandlerPost(store, "users", ToJSON(t.list))
                   ELSE store
       /\ backendTests' = [backendTests EXCEPT ![i] =
             [t EXCEPT !.pc = "done", !.results = Fatal(t.results)]]
       /\ UNCHANGED rawUsers
       /\ TestFrame

(***************************************************************************)
(* Multitenancy filtering (lines 266-286), computed at render              *)
(***************************************************************************)
filteredUsers(users, user) ==
    IF user = NoUser THEN << >>
    ELSE IF user.role = SUPER_ADMIN THEN users
    ELSE LET Same(u) == u.organizationId = user.organizationId
         IN Filter(Same, users)

\* fault injection: filteredTasks without the tenant test
filteredTasksUnscoped(tasks, user) ==
    IF user = NoUser THEN << >>
    ELSE IF user.role = SUPER_ADMIN THEN << >>
    ELSE tasks

filteredTasks(tasks, user) ==
    IF user = NoUser THEN << >>
    ELSE IF user.role = SUPER_ADMIN THEN << >>
    ELSE LET Same(t) == t.organizationId = user.organizationId
         IN Filter(Same, tasks)

filteredTemplates(templates, user) ==
    IF user = NoUser THEN << >>
    ELSE IF user.role = SUPER_ADMIN THEN << >>
    ELSE LET Same(t) == t.organizationId = user.organizationId
         IN Filter(Same, templates)

filteredOrgs(orgs, user) ==
    IF user # NoUser /\ user.role = SUPER_ADMIN THEN orgs ELSE << >>

\* the context value: what the consumer sees
users == filteredUsers(closure.users, closure.currentUser)
tasks == filteredTasks(closure.tasks, closure.currentUser)
templates == filteredTemplates(closure.templates, closure.currentUser)
organizations == filteredOrgs(closure.orgs, closure.currentUser)

(***************************************************************************)
(* getNextId (lines 290-295). An id is a sequence of characters.           *)
(***************************************************************************)
Digits == {"0", "1", "2", "3", "4", "5", "6", "7", "8", "9"}

DigitValue(c) ==
    CASE c = "0" -> 0 [] c = "1" -> 1 [] c = "2" -> 2 [] c = "3" -> 3
      [] c = "4" -> 4 [] c = "5" -> 5 [] c = "6" -> 6 [] c = "7" -> 7
      [] c = "8" -> 8 [] c = "9" -> 9

DigitChar(n) ==
    CASE n = 0 -> "0" [] n = 1 -> "1" [] n = 2 -> "2" [] n = 3 -> "3"
      [] n = 4 -> "4" [] n = 5 -> "5" [] n = 6 -> "6" [] n = 7 -> "7"
      [] n = 8 -> "8" [] n = 9 -> "9"

\* length of the longest prefix of decimal digits
RECURSIVE DigitPrefix(_)
DigitPrefix(s) ==
    IF s = << >> \/ Head(s) \notin Digits THEN 0 ELSE 1 + DigitPrefix(Tail(s))

(***************************************************************************)
(* A JavaScript number that is a non-negative integer: its decimal digits, *)
(* the lowest first, without zeros at the high end (0 is the empty         *)
(* sequence). The ids of the model have at most 17 digits, so that every   *)
(* number met is below 2^54.                                               *)
(***************************************************************************)
RECURSIVE Trim(_)
Trim(n) ==
    IF n # << >> /\ n[Len(n)] = 0 THEN Trim(SubSeq(n, 1, Len(n) - 1)) ELSE n

\* a < b
Less(a, b) ==
    \/ Len(a) < Len(b)
    \/ /\ Len(a) = Len(b)
       /\ \E i \in DOMAIN a :
             /\ a[i] < b[i]
             /\ \A j \in (i + 1)..Len(a) : a[j] = b[j]

RECURSIVE Succ(_)
Succ(n) ==
    IF n = << >> THEN << 1 >>
    ELSE IF n[1] < 9 THEN << n[1] + 1 >> \o Tail(n)
    ELSE << 0 >> \o Succ(Tail(n))

\* the integer n + k
RECURSIVE Plus(_, _)
Plus(n, k) == IF k = 0 THEN n ELSE Plus(Succ(n), k - 1)

\* 2^53 = 9007199254740992
TwoTo53 == << 2, 9, 9, 0, 4, 7, 4, 5, 2, 9, 9, 1, 7, 0, 0, 9 >>

\* The double nearest to the integer n: n itself below 2^53; from 2^53 to
\* 2^54 the doubles are the even integers, and an odd n, half way between
\* two of them, goes to the one with the even mantissa (the multiple of 4).
ToDouble(n) ==
    IF Less(n, TwoTo53) THEN n
    ELSE LET r == (n[1] + 10 * n[2]) % 4
         IN CASE r = 1 -> [n EXCEPT ![1] = @ - 1]
              [] r = 3 -> Succ(n)
              [] OTHER -> n

\* the digits written in s, as a number
DecimalValue(s) ==
    Trim([i \in DOMAIN s |-> DigitValue(s[Len(s) + 1 - i])])

\* parseInt(s, 10): the value of the leading digits; NaN (here the empty
\* set) when s does not start with a digit
parseInt(s) ==
    IF DigitPrefix(s) = 0 THEN {}
    ELSE {ToDouble(DecimalValue(SubSeq(s, 1, DigitPrefix(s))))}

\* Math.max(...ids)
MathMax(ids) == CHOOSE m \in ids : \A n \in ids : ~Less(m, n)

\* String(n) for n >= 0: the digits, the highest first
String(n) ==
    IF n = << >> THEN << "0" >>
    ELSE [i \in DOMAIN n |-> DigitChar(n[Len(n) + 1 - i])]

RECURSIVE padStart(_, _, _)
padStart(s, n, c) == IF Len(s) >= n THEN s ELSE padStart(<< c >> \o s, n, c)

\* getNextId without the offset of the batch position
getNextIdNoOffset(items, offset) ==
    LET ids == UNION {parseInt(items[i].id) : i \in DOMAIN items}
        maxId == IF ids # {} THEN MathMax(ids) ELSE << >>
        nextId == ToDouble(Plus(maxId, 1))
    IN padStart(String(nextId), 4, "0")

getNextId(items, offset) ==
    LET ids == UNION {parseInt(items[i].id) : i \in DOMAIN items}
        maxId == IF ids # {} THEN MathMax(ids) ELSE << >>
        nextId == ToDouble(Plus(ToDouble(Plus(maxId, 1)), offset))
    IN padStart(String(nextId), 4, "0")

(***************************************************************************)
(* Persistence helpers (lines 206-242)                                     *)
(***************************************************************************)
syncUsers(data) == [type |-> "users", data |-> data]
syncTasks(data) == [type |-> "tasks", data |-> data]
syncTemplates(data) == [type |-> "templates", data |-> data]
syncOrgs(data) == [type |-> "orgs", data |-> data]

\* the value a sequence of sync calls leaves in the state of type t
SetBy(calls, t, old) ==
    LET hits == {k \in DOMAIN calls : calls[k].type = t}
    IN IF hits = {} THEN old ELSE calls[Max(hits)].data

\* the synchronous part of the sync calls made by one action: setRaw*, then
\* apiService.save is issued
Dispatch(calls) ==
    /\ rawUsers' = SetBy(calls, "users", rawUsers)
    /\ rawTasks' = SetBy(calls, "tasks", rawTasks)
    /\ rawTemplates' = SetBy(calls, "templates", rawTemplates)
    /\ rawOrgs' = SetBy(calls, "orgs", rawOrgs)
    /\ saves' = saves \o [k \in DOMAIN calls |->
                            SaveRequest(calls[k].type, calls[k].data, 0)]

\* an action called by the consumer: it runs with the values of the last
\* render; calls is the sequence of sync calls it makes (none on early return)
Called(calls) ==
    /\ nLoads >= 1
    /\ nMutations < MaxMutations
    /\ nMutations' = nMutations + 1
    /\ Dispatch(calls)
    /\ UNCHANGED << isLoading, connectionError, currentUser, backendTests, closure,
                    localStorage, store, loads, nLoads >>

(***************************************************************************)
(* Inputs of the actions                                                   *)
(***************************************************************************)
Actors == { NoUser,
            User("u0", "global", SUPER_ADMIN, "p"),
            User("u1", "o1", ADMIN, "p") }

Times == 1..MaxTime
Days == 1..MaxDay

\* the loop stopping one day short of the end
DaysInRangeExclusive(startDate, endDate) ==
    [k \in 1..(endDate - startDate) |-> startDate + k - 1]

\* the days current takes in while (current <= end)
DaysInRange(startDate, endDate) ==
    [k \in 1..(endDate - startDate + 1) |-> startDate + k - 1]

\* the sign of the offset of local time from UTC
Zones == {-1, 0, 1}

\* new Date('YYYY-MM-DD') is the UTC midnight of the day: the local date of
\* that instant is the day before where local time is behind UTC
LocalDate(day, z) == IF z < 0 THEN day - 1 ELSE day

\* setHours(0, 0, 0, 0) moves to the local midnight of the local date, and
\* toISOString().split('T')[0] is the UTC date of that instant: the day
\* before where local time is ahead of UTC
toISODate(localDay, z) == IF z > 0 THEN localDay - 1 ELSE localDay

\* dateStr of each turn of while (current <= end)
DateStrs(startDate, endDate, z) ==
    LET days == DaysInRange(startDate, endDate)
    IN [k \in DOMAIN days |-> toISODate(LocalDate(days[k], z), z)]

Ids(items) == {items[k].id : k \in DOMAIN items}

TaskIdInputs == Ids(closure.tasks) \cup { << "x" >> }
UserIdInputs == Ids(closure.users) \cup { "u9" }
TemplateIdInputs == Ids(closure.templates) \cup { "t3" }

NewTaskInputs == { [title |-> "c", assignedTo |-> "u1", deadline |-> 1] }

UpdatedTaskInputs ==
    { [closure.tasks[k] EXCEPT !.title = "d"] : k \in DOMAIN closure.tasks }
    \cup { Task(<< "x" >>, "o1", "d", "u1", 1, PENDING, "absent", "absent") }

TemplateInputs ==
    { [id |-> id, items |-> << "c" >>] : id \in TemplateIdInputs }

(***************************************************************************)
(* Actions (lines 299-485)                                                 *)
(***************************************************************************)
setCurrentUser(user) ==
    /\ nLoads >= 1
    /\ currentUser # user
    /\ currentUser' = user
    /\ UNCHANGED << rawVars, isLoading, connectionError, closure, backendTests,
                    localStorage, store, saves, loads, nLoads, nMutations >>

addOrganization(now) ==
    LET newOrgId == "org_" \o ToString(now)
        newOrg == Organization(newOrgId)
        newAdmin == User("u_" \o ToString(now), newOrgId, ADMIN, "p")
    IN IF closure.currentUser = NoUser \/ closure.currentUser.role # SUPER_ADMIN
       THEN Called(<< >>)
       ELSE Called(<< syncOrgs(closure.orgs \o << newOrg >>),
                      syncUsers(closure.users \o << newAdmin >>) >>)

addTask(newTask) ==
    IF closure.currentUser = NoUser
    THEN Called(<< >>)
    ELSE LET task == Task(getNextId(closure.tasks, 0),
                          closure.currentUser.organizationId,
                          newTask.title, newTask.assignedTo, newTask.deadline,
                          PENDING, "absent", "absent")
         IN Called(<< syncTasks(<< task >> \o closure.tasks) >>)

createTaskRange(taskBase, startDate, endDate) ==
    \E z \in Zones :
    IF closure.currentUser = NoUser
    THEN Called(<< >>)
    ELSE LET days == DateStrs(startDate, endDate, z)
             newTasks == [k \in DOMAIN days |->
                            Task(<< >>, closure.currentUser.organizationId,
                                 taskBase.title, taskBase.assignedTo, days[k],
                                 PENDING, "absent", "absent")]
             withIds == [k \in DOMAIN newTasks |->
                           [newTasks[k] EXCEPT !.id = getNextId(closure.tasks, k - 1)]]
         IN Called(<< syncTasks(withIds \o closure.tasks) >>)

updateTask(updatedTask) ==
    LET Put(t) == IF t.id = updatedTask.id THEN updatedTask ELSE t
    IN Called(<< syncTasks(Map(Put, closure.tasks)) >>)

deleteTask(id) ==
    LET Keep(t) == t.id # id
    IN Called(<< syncTasks(Filter(Keep, closure.tasks)) >>)

toggleTaskStatus(taskId) ==
    LET Toggle(t) ==
          IF t.id = taskId
          THEN LET isCompleted == t.status = COMPLETED
               IN [t EXCEPT !.status = IF isCompleted THEN PENDING ELSE COMPLETED,
                            !.completedAt = IF isCompleted THEN "undefined" ELSE "ts"]
          ELSE t
    IN Called(<< syncTasks(Map(Toggle, closure.tasks)) >>)

updateTaskNotes(taskId, notes) ==
    LET Put(t) == IF t.id = taskId THEN [t EXCEPT !.notes = notes] ELSE t
    IN Called(<< syncTasks(Map(Put, closure.tasks)) >>)

addUser(now, role) ==
    IF closure.currentUser = NoUser
    THEN Called(<< >>)
    ELSE LET newUser == User("u_" \o ToString(now),
                             closure.currentUser.organizationId, role, "p")
         IN Called(<< syncUsers(closure.users \o << newUser >>) >>)

resetUserPassword(userId, newPass) ==
    LET Put(u) == IF u.id = userId THEN [u EXCEPT !.password = newPass] ELSE u
    IN Called(<< syncUsers(Map(Put, closure.users)) >>)

saveTemplate(template) ==
    IF closure.currentUser = NoUser
    THEN Called(<< >>)
    ELSE LET fullTemplate == Template(template.id,
                                      closure.currentUser.organizationId,
                                      template.items)
             exists == template.id \in Ids(closure.templates)
             Put(t) == IF t.id = template.id THEN fullTemplate ELSE t
             newTemplates == IF exists
                             THEN Map(Put, closure.templates)
                             ELSE closure.templates \o << fullTemplate >>
         IN Called(<< syncTemplates(newTemplates) >>)

deleteTemplate(id) ==
    LET Keep(t) == t.id # id
    IN Called(<< syncTemplates(Filter(Keep, closure.templates)) >>)

\* the tasks one day of the range gets from the items of the template
DayTasks(template, userId, day, org) ==
    [k \in DOMAIN template.items |->
       Task(<< >>, org, template.items[k], userId, day,
            PENDING, "absent", "absent")]

RECURSIVE Flatten(_)
Flatten(ss) == IF ss = << >> THEN << >> ELSE Head(ss) \o Flatten(Tail(ss))

assignTemplateToUser(templateId, userId, startDate, endDate) ==
    \E z \in Zones :
    IF closure.currentUser = NoUser
    THEN Called(<< >>)
    ELSE LET found == Filter(LAMBDA t : t.id = templateId, closure.templates)
         IN IF found = << >>
            THEN Called(<< >>)
            ELSE LET template == Head(found)
                     days == DateStrs(startDate, endDate, z)
                     newTasks == Flatten([k \in DOMAIN days |->
                                   DayTasks(template, userId, days[k],
                                            closure.currentUser.organizationId)])
                     withIds == [k \in DOMAIN newTasks |->
                                   [newTasks[k] EXCEPT
                                      !.id = getNextId(closure.tasks, k - 1)]]
                 IN Called(<< syncTasks(withIds \o closure.tasks) >>)

NextLoad ==
    \/ \E i \in 1..MaxLoads : loadData(i)
    \/ \E i \in 1..MaxLoads : SafetyValve(i)
    \/ \E i \in 1..MaxLoads, isOnline \in BOOLEAN : HealthCheck(i, isOnline)
    \/ \E i \in 1..MaxLoads, t \in Types : Fetch(i, t)
    \/ \E i \in 1..MaxLoads : FetchRejected(i)
    \/ \E i \in 1..MaxLoads : AfterFetch(i)
    \/ \E i \in 1..MaxLoads : AfterSeed(i)
    \/ \E k \in 1..Len(saves) : SaveResolved(k)
    \/ \E k \in 1..Len(saves), applied \in BOOLEAN : SaveRejected(k, applied)
    \/ Render

SpecLoad == Init /\ [][NextLoad]_vars

\* setTimeout runs its callback unless clearTimeout came first, and a
\* scheduled render runs; the network may never answer
FairLoad ==
    /\ Init
    /\ [][NextLoad]_vars
    /\ WF_vars(Render)
    /\ \A i \in 1..MaxLoads : WF_vars(SafetyValve(i))


NextAction ==
    \/ \E user \in Actors : setCurrentUser(user)
    \/ \E now \in Times : addOrganization(now)
    \/ \E newTask \in NewTaskInputs : addTask(newTask)
    \/ \E taskBase \in NewTaskInputs, s \in Days, e \in Days :
           createTaskRange(taskBase, s, e)
    \/ \E updatedTask \in UpdatedTaskInputs : updateTask(updatedTask)
    \/ \E id \in TaskIdInputs : deleteTask(id)
    \/ \E id \in TaskIdInputs : toggleTaskStatus(id)
    \/ \E id \in TaskIdInputs : updateTaskNotes(id, "n")
    \/ \E now \in Times : addUser(now, ANALYST)
    \/ \E id \in UserIdInputs : resetUserPassword(id, "q")
    \/ \E template \in TemplateInputs : saveTemplate(template)
    \/ \E id \in TemplateIdInputs : deleteTemplate(id)
    \/ \E id \in TemplateIdInputs, s \in Days, e \in Days :
           assignTemplateToUser(id, "u1", s, e)

(***************************************************************************)
(* States in which the first load has completed and been rendered: from    *)
(* the full store, by seeding the empty store, and offline over UsersCache *)
(***************************************************************************)
DoneLoad(probe, fetched, seeded, path) ==
    [pc |-> "done", timer |-> "cleared", probe |-> probe, fetched |-> fetched,
     fetchIssued |-> probe = "up", seedIssued |-> seeded,
     seedAcks |-> IF seeded THEN 3 ELSE 0, seedRejected |-> FALSE,
     path |-> path]

LoadedCommon(ld) ==
    /\ isLoading = FALSE
    /\ currentUser = NoUser
    /\ closure = Snapshot
    /\ saves = << >>
    /\ loads = [i \in 1..MaxLoads |-> IF i = 1 THEN ld ELSE IdleLoad]
    /\ nLoads = 1
    /\ nMutations = 0
    /\ backendTests = [i \in 1..MaxTests |-> IdleTest]

LoadedRemote ==
    /\ store = FullStore
    /\ rawUsers = StoredUsers
    /\ rawTasks = StoredTasks
    /\ rawTemplates = StoredTemplates
    /\ rawOrgs = StoredOrgs
    /\ localStorage = [cache_users |-> Json(StoredUsers),
                       cache_tasks |-> Json(StoredTasks),
                       cache_templates |-> Json(StoredTemplates),
                       cache_orgs |-> Json(StoredOrgs)]
    /\ connectionError = "null"
    /\ LoadedCommon(DoneLoad("up", FullStore, FALSE, "remote"))

LoadedSeeded ==
    /\ store = [users |-> Json(MOCK_USERS), tasks |-> Json(MOCK_TASKS),
                templates |-> Absent, orgs |-> Json(MOCK_ORGS)]
    /\ rawUsers = MOCK_USERS
    /\ rawTasks = MOCK_TASKS
    /\ rawTemplates = << >>
    /\ rawOrgs = MOCK_ORGS
    /\ localStorage = [cache_users |-> Json(MOCK_USERS),
                       cache_tasks |-> Json(MOCK_TASKS),
                       cache_templates |-> Json(<< >>),
                       cache_orgs |-> Json(MOCK_ORGS)]
    /\ connectionError = "null"
    /\ LoadedCommon(DoneLoad("up", [t \in Types |-> Json(<< >>)], TRUE, "seeded"))

LoadedOffline ==
    /\ store = FullStore
    /\ rawUsers = CachedUsers
    /\ rawTasks = MOCK_TASKS
    /\ rawTemplates = << >>
    /\ rawOrgs = << >>
    /\ localStorage = UsersCache
    /\ connectionError = OFFLINE_ERROR
    /\ LoadedCommon(DoneLoad("down", [t \in Types |-> Absent], FALSE, "offline"))

Loaded == LoadedRemote \/ LoadedSeeded \/ LoadedOffline

NextSaves ==
    \/ \E k \in 1..Len(saves) : SaveResolved(k)
    \/ \E k \in 1..Len(saves), applied \in BOOLEAN : SaveRejected(k, applied)
    \/ Render

\* the consumer's calls on a loaded provider
SpecActions == Loaded /\ [][NextAction \/ NextSaves]_vars

(***************************************************************************)
(* The id assignment on its own: the provider has loaded a store whose     *)
(* tasks carry the ids below (the handler stores any JSON document, so the *)
(* ids of a stored task are not restricted to what getNextId produces),    *)
(* and the admin of o1 has logged in and creates tasks.                    *)
(***************************************************************************)
IdInputs == { << "0", "0", "0", "1" >>, << "7" >>, << "9", "9", "9", "9" >>,
              << "x" >>, << "1", "2", "x" >> }

TasksWithIds(ids) ==
    [k \in DOMAIN ids |->
       Task(ids[k], "o1", "a", "u1", 1, PENDING, "absent", "absent")]

LoadedIds ==
    \E n \in 0..MaxItems : \E ids \in [1..n -> IdInputs] :
        LET st == [FullStore EXCEPT !["tasks"] = Json(TasksWithIds(ids))]
        IN /\ store = st
           /\ rawUsers = StoredUsers
           /\ rawTasks = TasksWithIds(ids)
           /\ rawTemplates = StoredTemplates
           /\ rawOrgs = StoredOrgs
           /\ localStorage = [cache_users |-> Json(StoredUsers),
                              cache_tasks |-> Json(TasksWithIds(ids)),
                              cache_templates |-> Json(StoredTemplates),
                              cache_orgs |-> Json(StoredOrgs)]
           /\ connectionError = "null"
           /\ isLoading = FALSE
           /\ currentUser = User("u1", "o1", ADMIN, "p")
           /\ closure = Snapshot
           /\ saves = << >>
           /\ loads = [i \in 1..MaxLoads |->
                         IF i = 1 THEN DoneLoad("up", st, FALSE, "remote")
                         ELSE IdleLoad]
           /\ nLoads = 1
           /\ nMutations = 0
           /\ backendTests = [i \in 1..MaxTests |-> IdleTest]

\* the calls are made while the collection in memory is small
FewTasks == Len(rawTasks) <= MaxItems

NextIds ==
    \/ \E newTask \in NewTaskInputs : FewTasks /\ addTask(newTask)
    \/ \E taskBase \in NewTaskInputs, s \in Days, e \in Days :
           FewTasks /\ createTaskRange(taskBase, s, e)
    \/ \E id \in TemplateIdInputs, s \in Days, e \in Days :
           FewTasks /\ assignTemplateToUser(id, "u1", s, e)
    \/ Render

SpecIds == LoadedIds /\ [][NextIds]_vars

(***************************************************************************)
(* Toggling on its own: the provider has loaded the full store, a user of  *)
(* o1 or of o2 has logged in and toggles the first task of the list shown, *)
(* while the saves settle.                                                 *)
(***************************************************************************)
\* the stored tasks, each pending or completed
StatusInputs ==
    { [k \in DOMAIN StoredTasks |->
         [StoredTasks[k] EXCEPT
            !.status = st[k],
            !.completedAt = IF st[k] = COMPLETED THEN "ts" ELSE "absent"]] :
      st \in [DOMAIN StoredTasks -> {PENDING, COMPLETED}] }

LoadedRemoteAs(user, stored) ==
    LET st == [FullStore EXCEPT !["tasks"] = Json(stored)]
    IN /\ store = st
       /\ rawUsers = StoredUsers
       /\ rawTasks = stored
       /\ rawTemplates = StoredTemplates
       /\ rawOrgs = StoredOrgs
       /\ localStorage = [cache_users |-> Json(StoredUsers),
                          cache_tasks |-> Json(stored),
                          cache_templates |-> Json(StoredTemplates),
                          cache_orgs |-> Json(StoredOrgs)]
       /\ connectionError = "null"
       /\ isLoading = FALSE
       /\ currentUser = user
       /\ closure = Snapshot
       /\ saves = << >>
       /\ loads = [i \in 1..MaxLoads |->
                     IF i = 1 THEN DoneLoad("up", st, FALSE, "remote")
                     ELSE IdleLoad]
       /\ nLoads = 1
       /\ nMutations = 0
       /\ backendTests = [i \in 1..MaxTests |-> IdleTest]

LoadedToggle ==
    \E k \in DOMAIN StoredUsers, stored \in StatusInputs :
        /\ StoredUsers[k].role # SUPER_ADMIN
        /\ LoadedRemoteAs(StoredUsers[k], stored)

NextToggle ==
    \/ tasks # << >> /\ toggleTaskStatus(tasks[1].id)
    \/ \E k \in 1..Len(saves) : SaveResolved(k)
    \/ \E k \in 1..Len(saves), applied \in BOOLEAN : SaveRejected(k, applied)
    \/ Render

SpecToggle == LoadedToggle /\ [][NextToggle]_vars

(***************************************************************************)
(* The diagnostic probe on a loaded provider, while the consumer resets    *)
(* the password of the first user and the saves of that settle             *)
(***************************************************************************)
NextTest ==
    \/ \E i \in 1..MaxTests, now \in Times : runBackendTest(i, now)
    \/ \E i \in 1..MaxTests : PreCheck(i)
    \/ \E i \in 1..MaxTests : PreCheckRejected(i)
    \/ \E i \in 1..MaxTests, acknowledged \in BOOLEAN, applied \in BOOLEAN :
           Write(i, acknowledged, applied)
    \/ \E i \in 1..MaxTests, applied \in BOOLEAN : WriteRejected(i, applied)
    \/ \E i \in 1..MaxTests : Verify(i)
    \/ \E i \in 1..MaxTests : VerifyRejected(i)
    \/ \E i \in 1..MaxTests : Cleanup(i)
    \/ \E i \in 1..MaxTests, applied \in BOOLEAN : CleanupRejected(i, applied)

SpecTest ==
    Loaded /\ [][\/ NextTest
                 \/ closure.users # << >>
                      /\ resetUserPassword(closure.users[1].id, "q")
                 \/ NextSaves]_vars

(***************************************************************************)
(* The handler on its own: requests of any method, type and body arrive at *)
(* the store the provider was constructed over                             *)
(***************************************************************************)
Methods == {"GET", "POST", "OPTIONS", "DELETE"}

TypeParams == Types \cup {"health", "bogus", "missing"}

Bodies == { Absent, Null, Malformed, Json(<< >>), Json(StoredOrgs),
            Scalar("false"), Scalar("0"), Scalar("1") }

Events == [httpMethod : Methods, type : TypeParams, body : Bodies]

Handle(event, storeThrows) ==
    /\ store' = handler(store, event, storeThrows).store
    /\ UNCHANGED << rawVars, isLoading, connectionError, currentUser, closure,
                    localStorage, saves, loads, nLoads, nMutations,
                    backendTests >>

SpecHandler ==
    Init /\ [][\E event \in Events, storeThrows \in BOOLEAN :
                  Handle(event, storeThrows)]_vars

(***************************************************************************)
(* The task collection on its own: the provider has loaded a store whose   *)
(* tasks carry pairwise distinct ids, small ones and ones at the end of    *)
(* the integers a double holds exactly, or it has loaded a store without   *)
(* tasks and the admin of o1 has created a first task whose save is still  *)
(* in flight; the admin then creates, changes and deletes tasks.           *)
(***************************************************************************)
DistinctIdInputs ==
    { << "0", "0", "0", "1" >>, << "7" >>, << "x" >>,
      << "9", "0", "0", "7", "1", "9", "9", "2", "5", "4", "7", "4", "0", "9", "9", "1" >>,
      << "9", "0", "0", "7", "1", "9", "9", "2", "5", "4", "7", "4", "0", "9", "9", "2" >> }

\* the store held the tasks stored, memory holds the tasks held, and the
\* saves pending are in flight
LoadedTasks(stored, held, pending) ==
    LET st == [FullStore EXCEPT !["tasks"] = Json(stored)]
    IN /\ store = st
       /\ rawUsers = StoredUsers
       /\ rawTasks = held
       /\ rawTemplates = StoredTemplates
       /\ rawOrgs = StoredOrgs
       /\ localStorage = [cache_users |-> Json(StoredUsers),
                          cache_tasks |-> Json(stored),
                          cache_templates |-> Json(StoredTemplates),
                          cache_orgs |-> Json(StoredOrgs)]
       /\ connectionError = "null"
       /\ isLoading = FALSE
       /\ currentUser = User("u1", "o1", ADMIN, "p")
       /\ closure = Snapshot
       /\ saves = pending
       /\ loads = [i \in 1..MaxLoads |->
                     IF i = 1 THEN DoneLoad("up", st, FALSE, "remote")
                     ELSE IdleLoad]
       /\ nLoads = 1
       /\ nMutations = 0
       /\ backendTests = [i \in 1..MaxTests |-> IdleTest]

\* the first task created on an empty collection (lines 330-337)
FirstTask == Task(getNextId(<< >>, 0), "o1", "c", "u1", 1, PENDING, "absent", "absent")

LoadedDistinct ==
    \/ \E n \in 0..MaxItems : \E ids \in [1..n -> DistinctIdInputs] :
          /\ \A i, j \in 1..n : ids[i] = ids[j] => i = j
          /\ LoadedTasks(TasksWithIds(ids), TasksWithIds(ids), << >>)
    \/ LoadedTasks(<< >>, << FirstTask >>,
                   << SaveRequest("tasks", << FirstTask >>, 0) >>)

NextTasks ==
    \/ \E newTask \in NewTaskInputs : addTask(newTask)
    \/ \E taskBase \in NewTaskInputs, s \in Days, e \in Days :
           createTaskRange(taskBase, s, e)
    \/ \E id \in TemplateIdInputs, s \in Days, e \in Days :
           assignTemplateToUser(id, "u1", s, e)
    \/ \E updatedTask \in UpdatedTaskInputs : updateTask(updatedTask)
    \/ \E id \in TaskIdInputs : deleteTask(id)
    \/ \E id \in TaskIdInputs : toggleTaskStatus(id)
    \/ \E id \in TaskIdInputs : updateTaskNotes(id, "n")
    \/ Render

SpecTasks == LoadedDistinct /\ [][NextTasks]_vars

(***************************************************************************)
(* A refresh while the user works: the provider has loaded the full store, *)
(* a user of o1 or of o2 has logged in, and the consumer calls refreshData *)
(* (line 603) and then toggles the first task of the list shown, while the *)
(* load runs and the saves are answered.                                   *)
(***************************************************************************)
NextRefresh ==
    \/ \E i \in 1..MaxLoads : loadData(i)
    \/ \E i \in 1..MaxLoads : SafetyValve(i)
    \/ \E i \in 1..MaxLoads, isOnline \in BOOLEAN : HealthCheck(i, isOnline)
    \/ \E i \in 1..MaxLoads, t \in Types : Fetch(i, t)
    \/ \E i \in 1..MaxLoads : FetchRejected(i)
    \/ \E i \in 1..MaxLoads : AfterFetch(i)
    \/ nLoads > 1 /\ tasks # << >> /\ toggleTaskStatus(tasks[1].id)
    \/ \E k \in 1..Len(saves) : SaveResolved(k)
    \/ Render

SpecRefresh == LoadedToggle /\ [][NextRefresh]_vars

Next == NextLoad \/ NextAction \/ NextTest

Spec == Init /\ [][Next]_vars

(***************************************************************************)
(* Properties                                                              *)
(***************************************************************************)
actor == closure.currentUser

OwnedBy(items, org) == \A k \in DOMAIN items : items[k].organizationId = org

\* C1: tenant isolation of the visible collections. With no actor all four
\* are empty; a super-admin sees no tasks and no templates; any other actor
\* sees only records of the actor's organization and no organizations.
TenantIsolation ==
    /\ actor = NoUser =>
         /\ users = << >>
         /\ tasks = << >>
         /\ templates = << >>
         /\ organizations = << >>
    /\ (actor # NoUser /\ actor.role = SUPER_ADMIN) =>
         /\ tasks = << >>
         /\ templates = << >>
    /\ (actor # NoUser /\ actor.role # SUPER_ADMIN) =>
         /\ OwnedBy(users, actor.organizationId)
         /\ OwnedBy(tasks, actor.organizationId)
         /\ OwnedBy(templates, actor.organizationId)
         /\ organizations = << >>

\* a tenant actor is rendered over tasks of two organizations and sees some
\* but not all of them
TenantSeesOwnTasksOnly ==
    /\ actor # NoUser
    /\ actor.role = ADMIN
    /\ tasks # << >>
    /\ Len(tasks) < Len(closure.tasks)
    /\ Len(users) < Len(closure.users)
    /\ closure.orgs # << >>

LoadIds == 1..MaxLoads

FetchedAll(ld) == \A t \in Types : ld.fetched[t] # Absent

SeedRequests(i) ==
    << [type |-> "users", body |-> MOCK_USERS, owner |-> i],
       [type |-> "tasks", body |-> MOCK_TASKS, owner |-> i],
       [type |-> "orgs", body |-> MOCK_ORGS, owner |-> i] >>

\* the fetches of load i have all succeeded and the code after them has run
PastFetch(i) ==
    \/ loads[i].pc = "seed"
    \/ loads[i].pc = "done" /\ loads[i].path \in {"remote", "seeded"}

\* C2: a load whose probe and fetches succeed seeds exactly when the fetched
\* users and organizations are both empty; seeding issues a save of the seed
\* users, tasks and organizations, ends with the seed sets in memory and the
\* templates as fetched, and never ends on the offline path.
SeedOnDualEmptiness ==
    /\ [](\A i \in LoadIds :
            /\ PastFetch(i) =>
                 (loads[i].seedIssued <=>
                    /\ loads[i].fetched["users"].val = << >>
                    /\ loads[i].fetched["orgs"].val = << >>)
            /\ loads[i].seedIssued => loads[i].path \in {"none", "seeded"}
            /\ loads[i].path = "seeded" => loads[i].seedIssued)
    /\ [][\A i \in LoadIds :
            /\ (~loads[i].seedIssued /\ loads'[i].seedIssued) =>
                 saves' = saves \o SeedRequests(i)
            /\ (loads[i].path = "none" /\ loads'[i].path = "seeded") =>
                 /\ rawUsers' = MOCK_USERS
                 /\ rawTasks' = MOCK_TASKS
                 /\ rawOrgs' = MOCK_ORGS
                 /\ rawTemplates' = loads[i].fetched["templates"].val
            /\ (loads[i].path = "none" /\ loads'[i].path = "remote") =>
                 /\ rawUsers' = loads[i].fetched["users"].val
                 /\ rawTasks' = loads[i].fetched["tasks"].val
                 /\ rawOrgs' = loads[i].fetched["orgs"].val
                 /\ rawTemplates' = loads[i].fetched["templates"].val]_vars

\* a load has seeded over fetched tasks and templates although a seed save
\* was rejected
SeededDespiteRejectedSave ==
    \E i \in LoadIds :
        /\ loads[i].path = "seeded"
        /\ loads[i].seedRejected
        /\ loads[i].fetched["templates"].val # << >>
        /\ rawUsers = MOCK_USERS
        /\ rawTemplates = loads[i].fetched["templates"].val

\* the entry of localStorage as the catch branch reads it
CachedOr(key, fallback) ==
    IF localStorage[key].kind = "json" THEN localStorage[key].val ELSE fallback

\* C3: a failed load records the offline error and decides each collection
\* on its own: the cache entry when there is a well-formed one, otherwise
\* the seed set, and for templates otherwise the empty collection.
OfflineFallbackPerCollection ==
    [][\A i \in LoadIds :
         (loads[i].path = "none" /\ loads'[i].path = "offline") =>
            /\ connectionError' = OFFLINE_ERROR
            /\ rawUsers' = CachedOr("cache_users", MOCK_USERS)
            /\ rawTasks' = CachedOr("cache_tasks", MOCK_TASKS)
            /\ rawOrgs' = CachedOr("cache_orgs", MOCK_ORGS)
            /\ rawTemplates' = CachedOr("cache_templates", << >>)]_vars

\* a failed load took the cached users next to the seed tasks
OfflineMixesCacheAndSeed ==
    \E i \in LoadIds :
        /\ loads[i].path = "offline"
        /\ connectionError = OFFLINE_ERROR
        /\ localStorage["cache_users"].kind = "json"
        /\ localStorage["cache_tasks"].kind = "malformed"
        /\ rawUsers = CachedUsers
        /\ rawTasks = MOCK_TASKS
        /\ rawTemplates = << >>

\* C4: a load whose health probe reports the store unreachable issues no
\* fetch and no save and ends on the offline path at once.
NoFetchAfterFailedProbe ==
    \A i \in LoadIds :
        loads[i].probe = "down" =>
            /\ ~loads[i].fetchIssued
            /\ ~loads[i].seedIssued
            /\ \A t \in Types : loads[i].fetched[t] = Absent
            /\ \A k \in DOMAIN saves : saves[k].owner # i
            /\ loads[i].pc = "done"
            /\ loads[i].path = "offline"

\* a load has ended offline on a failed probe
ProbeFailedLoadOffline ==
    \E i \in LoadIds :
        /\ loads[i].probe = "down"
        /\ loads[i].path = "offline"
        /\ connectionError = OFFLINE_ERROR
        /\ ~isLoading

InFlight(i) == loads[i].pc \in {"health", "fetch", "seed"}

\* C5: every load cycle leaves the loading flag false in the end: the step
\* that finishes the protocol clears the flag and cancels the timer, a timer
\* that fires while the flag is set clears it and records the timeout error,
\* and a started cycle is always followed by a state with the flag cleared.
LoadingEnds ==
    /\ \A i \in LoadIds : InFlight(i) ~> ~isLoading
    /\ [][\A i \in LoadIds :
            /\ (InFlight(i) /\ loads'[i].pc = "done") =>
                 /\ ~isLoading'
                 /\ loads'[i].timer # "armed"
            /\ (loads[i].timer = "armed" /\ loads'[i].timer = "fired" /\ isLoading) =>
                 /\ ~isLoading'
                 /\ connectionError' = TIMEOUT_ERROR]_vars

\* the timer of a load that is still waiting for the network has fired and
\* cleared the flag
TimedOutWhileWaiting ==
    \E i \in LoadIds :
        /\ InFlight(i)
        /\ loads[i].timer = "fired"
        /\ ~isLoading
        /\ connectionError = TIMEOUT_ERROR

Completed(i, paths) == loads[i].path = "none" /\ loads'[i].path \in paths

RawAfter(t) ==
    CASE t = "users" -> rawUsers'
      [] t = "tasks" -> rawTasks'
      [] t = "templates" -> rawTemplates'
      [] t = "orgs" -> rawOrgs'

\* the step is a call of an action by the consumer
IsCall == nMutations' = nMutations + 1

\* the saves the step has put in flight
Issued == (Len(saves) + 1)..Len(saves')

\* C6: a sync call puts its new value in memory in the step of the call,
\* with the save still in flight; a save that fails leaves the in-memory
\* collections, the last error and the loading flag as they are.
OptimisticSync ==
    [][/\ IsCall =>
            \A k \in Issued :
                /\ saves'[k].owner = 0
                /\ ToJSON(RawAfter(saves'[k].type)) = saves'[k].body
       /\ (\E k \in DOMAIN saves, applied \in BOOLEAN : SaveRejected(k, applied)) =>
            UNCHANGED << rawVars, connectionError, isLoading >>]_vars

\* the save of the only call made has been rejected without reaching the
\* store: memory and the cache hold the new tasks, the store the old ones
RejectedSaveKeepsMemory ==
    /\ nMutations = 1
    /\ saves = << >>
    /\ loads[1].path = "remote"
    /\ store["tasks"] = Json(StoredTasks)
    /\ ToJSON(rawTasks) # StoredTasks
    /\ localStorage["cache_tasks"] = Json(ToJSON(rawTasks))
    /\ connectionError = "null"
    /\ ~isLoading

SyncInFlight(sv, t) == \E k \in DOMAIN sv : sv[k].type = t /\ sv[k].owner = 0

\* C7: when the last outstanding save of a collection settles, the cache
\* entry of the collection equals the collection in memory.
CacheFollowsMemory ==
    [][\A t \in Types :
         (SyncInFlight(saves, t) /\ ~SyncInFlight(saves', t)) =>
            localStorage'[CACHE_KEYS[t]] = Json(ToJSON(RawOf(t)'))]_vars

\* C9: with no current actor a call of an action changes no collection and
\* issues no save, and so does addOrganization for an actor that is not a
\* super-admin.
NoActorNoEffect ==
    [][/\ (IsCall /\ currentUser = NoUser /\ actor = NoUser) =>
            UNCHANGED << rawVars, saves >>
       /\ ((\E now \in Times : addOrganization(now))
             /\ actor # NoUser /\ actor.role # SUPER_ADMIN) =>
            UNCHANGED << rawVars, saves >>]_vars

\* the longest run of decimal digits an id starts with
Leading(id) ==
    LET p == CHOOSE n \in 0..Len(id) :
                 /\ \A i \in 1..n : id[i] \in Digits
                 /\ n < Len(id) => id[n + 1] \notin Digits
    IN SubSeq(id, 1, p)

\* the decimal number a run of digits writes
RECURSIVE Written(_)
Written(ds) ==
    IF ds = << >> THEN 0
    ELSE DigitValue(Head(ds)) * (10 ^ (Len(ds) - 1)) + Written(Tail(ds))

\* the id of number n: its decimal digits, zeros in front up to four places
IsIdOf(id, n) ==
    /\ id # << >>
    /\ Leading(id) = id
    /\ Written(id) = n
    /\ Len(id) >= 4
    /\ Len(id) > 4 => Head(id) # "0"

\* the tasks the step has put in front of the tasks the call has read
Added == Len(rawTasks') - Len(closure.tasks)

\* the step has put k new tasks in front, with the ids of first, first + 1,
\* ..., each different from the ids of the tasks read and from each other
AssignsFrom(first, k) ==
    /\ Added = k
    /\ SubSeq(rawTasks', k + 1, Len(rawTasks')) = closure.tasks
    /\ \A j \in 1..k :
          /\ IsIdOf(rawTasks'[j].id, first + j - 1)
          /\ rawTasks'[j].id \notin Ids(closure.tasks)
          /\ \A i \in 1..(j - 1) : rawTasks'[i].id # rawTasks'[j].id

\* the calls that create tasks give the ids that follow first
IdsFollow(first) ==
    /\ (\E newTask \in NewTaskInputs : addTask(newTask)) =>
          AssignsFrom(first, 1)
    /\ \A taskBase \in NewTaskInputs, s \in Days, e \in Days :
          createTaskRange(taskBase, s, e) =>
            AssignsFrom(first, IF e >= s THEN e - s + 1 ELSE 0)
    /\ \A k \in DOMAIN closure.templates, s \in Days, e \in Days :
          assignTemplateToUser(closure.templates[k].id, "u1", s, e) =>
            AssignsFrom(first, Len(closure.templates[k].items)
                                 * (IF e >= s THEN e - s + 1 ELSE 0))

\* one more than the largest number among nums, 1 when there is none
After(nums) == IF nums = {} THEN 1 ELSE Max(nums) + 1

SpanOf(startDate, endDate) ==
    IF endDate >= startDate THEN endDate - startDate + 1 ELSE 0

\* the step has put n days of the items of template, day by day and item by
\* item, in front of the tasks the call has read
AddsBlock(template, userId, n) ==
    LET m == Len(template.items)
        At(d, i) == rawTasks'[(d - 1) * m + i]
    IN /\ Len(rawTasks') = n * m + Len(closure.tasks)
       /\ SubSeq(rawTasks', n * m + 1, Len(rawTasks')) = closure.tasks
       /\ \A d \in 1..n, i \in 1..m :
             /\ At(d, i).status = PENDING
             /\ At(d, i).organizationId = actor.organizationId
             /\ At(d, i).assignedTo = userId
             /\ At(d, i).title = template.items[i]
             /\ At(d, i).deadline = At(1, 1).deadline + d - 1
       /\ UNCHANGED << rawUsers, rawTemplates, rawOrgs >>
       /\ Len(saves') = Len(saves) + 1

Fetched(k) == loads[1].fetched["tasks"].val[k]

\* completedAt holds no timestamp
Unset(t) == t.completedAt \in {"absent", "undefined"}

\* C12: two toggles of the same task, with no other action on it in
\* between, leave it with the status it had; a toggle leaves the task with
\* completedAt set exactly when it is now COMPLETED, and every other task as
\* it was.
ToggleTwiceRestores ==
    /\ [](nMutations = 2 =>
            \A k \in DOMAIN rawTasks :
                rawTasks[k].id = tasks[1].id =>
                    rawTasks[k].status = Fetched(k).status)
    /\ [][IsCall =>
            /\ Len(rawTasks') = Len(rawTasks)
            /\ \A k \in DOMAIN rawTasks :
                  IF rawTasks[k].id = tasks[1].id
                  THEN /\ rawTasks'[k].status = COMPLETED => ~Unset(rawTasks'[k])
                       /\ rawTasks'[k].status = PENDING => Unset(rawTasks'[k])
                  ELSE rawTasks'[k] = rawTasks[k]]_vars

\* the result list of a probe whose every step has succeeded
AllPassed ==
    << [step |-> "1. PRE-CHECK", status |-> "pending"],
       [step |-> "1. PRE-CHECK", status |-> "success"],
       [step |-> "2. WRITE", status |-> "pending"],
       [step |-> "2. WRITE", status |-> "success"],
       [step |-> "3. VERIFY", status |-> "pending"],
       [step |-> "3. VERIFY", status |-> "success"],
       [step |-> "4. CLEANUP", status |-> "pending"],
       [step |-> "4. CLEANUP", status |-> "success"] >>

\* the list ends with its only FATAL entry, an error
EndsFatal(results) ==
    /\ results # << >>
    /\ results[Len(results)] = [step |-> "FATAL", status |-> "error"]
    /\ \A k \in 1..(Len(results) - 1) : results[k].step # "FATAL"

\* the probe i takes a step
TestStep(i) == backendTests'[i] # backendTests[i]

\* C13: a probe always ends with a result list: the list of the eight
\* entries without an error when every step has succeeded, otherwise a list
\* that ends with its only FATAL error entry; after its end the probe does
\* nothing, and it writes to the store only when its first fetch has
\* succeeded and, for the cleanup, when the test user was found.
ProbeEndsWithResults ==
    /\ [](\A i \in 1..MaxTests :
            /\ backendTests[i].pc \in {"idle", "fetching", "writing",
                                       "verifying", "cleaning", "done"}
            /\ backendTests[i].pc = "done" =>
                  \/ backendTests[i].results = AllPassed
                  \/ EndsFatal(backendTests[i].results))
    /\ [][\A i \in 1..MaxTests :
            /\ backendTests[i].pc = "done" => ~TestStep(i)
            /\ (TestStep(i) /\ store' # store) =>
                  /\ backendTests[i].pc \in {"writing", "cleaning"}
                  /\ \E k \in DOMAIN backendTests[i].results :
                        backendTests[i].results[k] =
                            [step |-> "1. PRE-CHECK", status |-> "success"]
                  /\ backendTests[i].pc = "cleaning" =>
                        \E k \in DOMAIN backendTests[i].results :
                            backendTests[i].results[k] =
                                [step |-> "3. VERIFY", status |-> "success"]]_vars

\* a probe has ended because the re-fetch did not hold its test user
TestUserMissing ==
    \E i \in 1..MaxTests :
        /\ backendTests[i].pc = "done"
        /\ Len(backendTests[i].results) = 7
        /\ backendTests[i].results[6] = [step |-> "3. VERIFY", status |-> "error"]
        /\ EndsFatal(backendTests[i].results)

\* C14: the steps of a probe leave the tasks, templates, organizations, the
\* loading flag and the last error as they are; they change the users in
\* memory only in the step that completes the cleanup write, and then to
\* the re-fetched list without the test user.
ProbeTouchesOnlyUsers ==
    [][\A i \in 1..MaxTests :
         TestStep(i) =>
           /\ UNCHANGED << rawTasks, rawTemplates, rawOrgs, isLoading,
                           connectionError >>
           /\ (backendTests[i].pc = "verifying" /\ backendTests'[i].pc = "cleaning") =>
                 backendTests'[i].list =
                     Filter(LAMBDA u : u.id # backendTests[i].testId,
                            HandlerGet(store, "users"))
           /\ IF backendTests'[i].results = AllPassed
              THEN rawUsers' = backendTests[i].list
              ELSE UNCHANGED rawUsers]_vars

\* a probe has passed and has replaced the users in memory by those of the
\* store, which the provider had not loaded
ProbeMirroredStore ==
    \E i \in 1..MaxTests :
        /\ backendTests[i].results = AllPassed
        /\ rawUsers = HandlerGet(store, "users")
        /\ rawUsers # closure.users
        /\ loads[1].path = "offline"

\* the GET of type t that follows, with the store at work
Get(st, t) ==
    handler(st, [httpMethod |-> "GET", type |-> t, body |-> Absent], FALSE)

\* C15: a POST of a JSON body other than null for a valid type puts the body
\* in place of the document of the type and leaves the other documents, so
\* that the GET that follows returns the body; a GET of a type never written
\* returns the empty array; GET, health and OPTIONS leave the store.
PostReplacesGetReturns ==
    \A event \in Events :
        LET r == handler(store, event, FALSE)
        IN /\ (/\ event.httpMethod = "POST"
               /\ event.type \in Types
               /\ event.body.kind \in {"json", "scalar"}) =>
                 /\ r.store = [store EXCEPT ![event.type] = event.body]
                 /\ Get(r.store, event.type).body = event.body
           /\ (/\ event.httpMethod = "GET"
               /\ event.type \in Types
               /\ store[event.type] = Absent) =>
                 r.body = Json(<< >>)
           /\ (\/ event.httpMethod \in {"GET", "OPTIONS"}
               \/ event.type = "health") =>
                 r.store = store

\* C16: a request with a method that is not supported, or with a type that
\* is missing or not valid, is answered 4xx and leaves the store; a failure
\* of the store is answered 500 with an error message.
BadRequestsRefused ==
    \A event \in Events, storeThrows \in BOOLEAN :
        LET r == handler(store, event, storeThrows)
        IN /\ (\/ event.httpMethod \notin {"GET", "POST", "OPTIONS"}
               \/ event.type \in {"missing", "bogus"}) =>
                 /\ r.statusCode \in 400..499
                 /\ r.store = store
           /\ (/\ storeThrows
               /\ event.type \in Types
               /\ \/ event.httpMethod = "GET"
                  \/ event.httpMethod = "POST"
                     /\ event.body.kind \in {"json", "scalar"}) =>
                 /\ r.statusCode = 500
                 /\ r.body.kind = "error"

\* C17: an action called after another on the same collection, with the
\* save of the first still out, works on the collection in memory, which
\* holds the update of the first: after addTask the tasks in memory are the
\* new task in front of those in memory before, and the save issued carries
\* them all.
SecondCallSeesFirst ==
    [][(actor # NoUser /\ \E newTask \in NewTaskInputs : addTask(newTask)) =>
         /\ rawTasks' # << >>
         /\ Tail(rawTasks') = rawTasks
         /\ saves'[Len(saves')].body = ToJSON(rawTasks')]_vars

\* C18: the saves in flight are applied to the store in any order: each of
\* them can be the next to resolve, and the one that resolves puts its value
\* in the store whatever the saves issued before or after it; the store can
\* so end with the value of the save issued first, which is not the value
\* in memory.
SavesApplyInAnyOrder ==
    /\ [](Rendered => \A k \in DOMAIN saves : ENABLED SaveResolved(k))
    /\ [][\A k \in DOMAIN saves :
            SaveResolved(k) =>
              /\ store'[saves[k].type] = Json(saves[k].body)
              /\ \A t \in Types \ {saves[k].type} : store'[t] = store[t]]_vars

\* two toggles have brought the tasks in memory back to the fetched ones and
\* both saves have settled, the second first: the store holds the tasks of
\* the first save
StoreHoldsEarlierSave ==
    /\ nMutations = 2
    /\ saves = << >>
    /\ Rendered
    /\ Json(ToJSON(rawTasks)) = loads[1].fetched["tasks"]
    /\ store["tasks"] # Json(ToJSON(rawTasks))

\* the number an id counts as in getNextId (none when it starts with no digit)
NumberOf(id) == parseInt(id)

\* the ids of the tasks saved by the calls made so far that the store loaded
\* did not hold: each was assigned by an earlier creation
AssignedEarlier ==
    UNION {Ids(saves[k].body) : k \in {j \in DOMAIN saves : saves[j].type = "tasks"}}
      \ Ids(loads[1].fetched["tasks"].val)

\* C19: over any sequence of creations, batch creations and deletions, each
\* id assigned to a new task is a greater number than every id assigned
\* earlier (stated for calls made after the screen has rendered the previous
\* call).
NewIdsExceedEarlierIds ==
    [][(Rendered /\ Len(saves') > Len(saves)) =>
         \A k \in 1..(Len(rawTasks') - Len(rawTasks)) :
            \A old \in AssignedEarlier :
               \A a \in NumberOf(old) : \A b \in NumberOf(rawTasks'[k].id) :
                  Less(a, b)]_vars

\* C20: starting from pairwise distinct ids, no two tasks of the collection
\* in memory share an id after any sequence of task calls.
TaskIdsStayUnique ==
    \A i, j \in DOMAIN rawTasks : rawTasks[i].id = rawTasks[j].id => i = j

\* the records of items that belong to another organization than org
Foreign(items, org) ==
    LET Other(r) == r.organizationId # org
    IN Filter(Other, items)

\* the step is a call of one of the actions that change or delete the
\* record with a given id
ChangesById ==
    \/ \E updatedTask \in UpdatedTaskInputs : updateTask(updatedTask)
    \/ \E id \in TaskIdInputs :
          deleteTask(id) \/ toggleTaskStatus(id) \/ updateTaskNotes(id, "n")
    \/ \E id \in UserIdInputs : resetUserPassword(id, "q")
    \/ \E template \in TemplateInputs : saveTemplate(template)
    \/ \E id \in TemplateIdInputs : deleteTemplate(id)

\* C21: updateTask, deleteTask, toggleTaskStatus, updateTaskNotes,
\* resetUserPassword, saveTemplate and deleteTemplate, called by an actor
\* who is not a super-admin, leave every record of another organization in
\* the raw collections as it was (stated for calls made on the rendered
\* state by the logged-in actor).
MutationStaysInTenant ==
    [][(/\ IsCall
        /\ Rendered
        /\ actor # NoUser
        /\ actor.role # SUPER_ADMIN
        /\ ChangesById) =>
          /\ Foreign(rawUsers', actor.organizationId)
               = Foreign(rawUsers, actor.organizationId)
          /\ Foreign(rawTasks', actor.organizationId)
               = Foreign(rawTasks, actor.organizationId)
          /\ Foreign(rawTemplates', actor.organizationId)
               = Foreign(rawTemplates, actor.organizationId)]_vars

\* C22: a load cycle that completes on its success path (data from the
\* remote store or from the seed) leaves the last-error message empty.
SuccessfulLoadLeavesNoError ==
    [][\A i \in LoadIds :
          Completed(i, {"remote", "seeded"}) => connectionError' = "null"]_vars

\* C23: a mutation applied while a load cycle is in flight stays in memory:
\* once the refresh has completed on its success path and the save of the
\* only toggle made since the refresh was called has resolved, the tasks in
\* memory are the tasks that save has written to the store.
MutationSurvivesLoad ==
    (/\ nLoads = 2
     /\ loads[2].pc = "done"
     /\ loads[2].path = "remote"
     /\ nMutations = 1
     /\ saves = << >>) =>
        Json(ToJSON(rawTasks)) = store["tasks"]

====
